---- MODULE Spec2Model ----
(***************************************************************************)
(* Wordle solver (src/main.rs): the feedback scorer `score`, the candidate *)
(* ranker and the recursive tree search `solve`, and `Tree::write`.        *)
(* Words and colour patterns are [u8; 5]: sequences of five byte values.   *)
(***************************************************************************)
EXTENDS Integers, Sequences, FiniteSets, TLC

\* ------------------------------------------------------------------ bytes
CROSSED_OUT == 0
WordLen == 5
ColB == 98
ColG == 103
ColY == 121
Comma == 44
Newline == 10
AllGreen == <<ColG, ColG, ColG, ColG, ColG>>
AllBlack == <<ColB, ColB, ColB, ColB, ColB>>

\* ------------------------------------------------------------------ score
\* First loop of score (lines 62-68), positions i..5: exact matches are
\* coloured g and crossed out in both the guess and the answer.
RECURSIVE ExactPass(_, _)
ExactPass(st, i) ==
    IF i > WordLen THEN st
    ELSE IF st.guess[i] = st.answer[i]
         THEN ExactPass([guess  |-> [st.guess  EXCEPT ![i] = CROSSED_OUT],
                         answer |-> [st.answer EXCEPT ![i] = CROSSED_OUT],
                         colors |-> [st.colors EXCEPT ![i] = ColG]], i + 1)
         ELSE ExactPass(st, i + 1)

\* answer.iter().copied().position(|a| a == c): 0 when there is none.
Position(answer, c) ==
    IF \E j \in 1..WordLen : answer[j] = c
    THEN CHOOSE j \in 1..WordLen :
            /\ answer[j] = c
            /\ \A k \in 1..(j - 1) : answer[k] # c
    ELSE 0

\* One iteration of the second loop with the answer letter left in place.
PresentStepNoConsume(st, i) ==
    IF st.guess[i] # CROSSED_OUT /\ Position(st.answer, st.guess[i]) # 0
    THEN [guess  |-> [st.guess EXCEPT ![i] = CROSSED_OUT],
          answer |-> st.answer,
          colors |-> [st.colors EXCEPT ![i] = ColY]]
    ELSE st

\* One iteration of the second loop of score (lines 71-77).
PresentStep(st, i) ==
    IF st.guess[i] # CROSSED_OUT /\ Position(st.answer, st.guess[i]) # 0
    THEN LET j == Position(st.answer, st.guess[i])
         IN  [guess  |-> [st.guess  EXCEPT ![i] = CROSSED_OUT],
              answer |-> [st.answer EXCEPT ![j] = CROSSED_OUT],
              colors |-> [st.colors EXCEPT ![i] = ColY]]
    ELSE st

\* Second loop of score (lines 70-78), positions i..5.
RECURSIVE PresentPass(_, _)
PresentPass(st, i) ==
    IF i > WordLen THEN st ELSE PresentPass(PresentStep(st, i), i + 1)

\* fn score(guess, answer) -> Word (lines 59-81).
score(g, a) ==
    PresentPass(ExactPass([guess |-> g, answer |-> a, colors |-> AllBlack], 1), 1).colors

\* ------------------------------------------------------------ containers
None == <<>>
Some(x) == <<x>>
EmptyMap == <<>>

\* HashMap::insert on a map modelled as a function.
MapInsert(m, k, v) == [x \in (DOMAIN m) \cup {k} |-> IF x = k THEN v ELSE m[x]]

\* Lexicographic order of [u8; 5] (derived Ord of arrays).
LexLess(v, w) ==
    \E i \in 1..WordLen :
        /\ v[i] < w[i]
        /\ \A k \in 1..(i - 1) : v[k] = w[k]

\* The elements of a finite set of words in increasing order.
RECURSIVE SortSet(_)
SortSet(S) ==
    IF S = {} THEN <<>>
    ELSE LET m == CHOOSE x \in S : \A y \in S \ {x} : LexLess(x, y)
         IN  <<m>> \o SortSet(S \ {m})

Reverse(s) == [i \in 1..Len(s) |-> s[Len(s) + 1 - i]]
Rotate(s, r) == [i \in 1..Len(s) |-> s[((i - 1 + r) % Len(s)) + 1]]

\* Iteration order of a HashMap with the key set S. RandomState makes it
\* unspecified; hash seed h selects one order (a rotation of the sorted
\* keys, reversed for odd h). iter(), keys(), values() and par_iter() of one
\* unmodified map all follow this same order.
KeyOrder(h, S) ==
    LET s == SortSet(S)
        r == Rotate(s, h \div 2)
    IN  IF h % 2 = 1 THEN Reverse(r) ELSE r

\* ------------------------------------------------------------------ Tree
\* A leaf that counts no guess for its own word.
leafUncounted(g) == [guess |-> g, total_guesses |-> 0, max_guesses |-> 0, children |-> EmptyMap]

\* Tree::leaf (lines 24-31).
leaf(g) == [guess |-> g, total_guesses |-> 1, max_guesses |-> 1, children |-> EmptyMap]

Max(a, b) == IF a >= b THEN a ELSE b

\* Tree::write (lines 43-56) with the child map iterated in the order that
\* hash seed h gives; the result is the sequence of lines handed to write_all.
RECURSIVE write(_, _, _)

\* The loop of lines 51-53 leaving after the first child.
writeFirstChild(t, ks, line, h) ==
    IF ks = <<>> THEN <<>> ELSE write(t.children[Head(ks)], line, h + 1)

RECURSIVE writeChildren(_, _, _, _)
writeChildren(t, ks, line, h) ==
    IF ks = <<>> THEN <<>>
    ELSE write(t.children[Head(ks)], line, h + 1) \o writeChildren(t, Tail(ks), line, h)

write(t, line, h) ==
    IF DOMAIN t.children = {}
    THEN << line \o t.guess \o <<Newline>> >>
    ELSE writeChildren(t, KeyOrder(h, DOMAIN t.children), line \o t.guess \o <<Comma>>, h)

\* ---------------------------------------------------------------- ranker
\* score(guess, answer) for every answer of the slice, in slice order.
RECURSIVE ScoreAll(_, _)
ScoreAll(g, as) ==
    IF as = <<>> THEN <<>> ELSE <<score(g, Head(as))>> \o ScoreAll(g, Tail(as))

\* groups: HashMap<Word, usize> after the loop of lines 102-105.
GroupCounts(g, as) ==
    LET cs == ScoreAll(g, as)
    IN  [k \in {cs[i] : i \in 1..Len(cs)} |-> Cardinality({i \in 1..Len(cs) : cs[i] = k})]

RECURSIVE SumValues(_, _)
SumValues(m, ks) ==
    IF ks = {} THEN 0
    ELSE LET k == CHOOSE x \in ks : TRUE IN m[k] + SumValues(m, ks \ {k})

\* Lines 107-110: (sum - all-green count) / groups.len(), kept as a fraction.
\* Both are small integers, so the f64 quotient orders as the fraction does.
Avg(g, as) ==
    LET cnt == GroupCounts(g, as)
        sum == SumValues(cnt, DOMAIN cnt)
        grn == IF AllGreen \in DOMAIN cnt THEN cnt[AllGreen] ELSE 0
    IN  [num |-> sum - grn, den |-> Cardinality(DOMAIN cnt)]

\* Ord of the tuple (NotNan<f64>, Word).
RankLess(p, q) ==
    \/ p.avg.num * q.avg.den < q.avg.num * p.avg.den
    \/ /\ p.avg.num * q.avg.den = q.avg.num * p.avg.den
       /\ LexLess(p.guess, q.guess)

RankLeq(p, q) == ~RankLess(q, p)

\* sort_unstable (line 114): the order is total, equal pairs are identical.
RECURSIVE SortRanked(_)
SortRanked(s) ==
    IF s = <<>> THEN <<>>
    ELSE LET m == CHOOSE i \in 1..Len(s) : \A j \in 1..Len(s) : RankLeq(s[i], s[j])
         IN  <<s[m]>> \o SortRanked(SubSeq(s, 1, m - 1) \o SubSeq(s, m + 1, Len(s)))

RECURSIVE RankAll(_, _)
RankAll(gs, as) ==
    IF gs = <<>> THEN <<>>
    ELSE <<[avg |-> Avg(Head(gs), as), guess |-> Head(gs)]>> \o RankAll(Tail(gs), as)

Take(s, n) == SubSeq(s, 1, IF n < Len(s) THEN n ELSE Len(s))

RECURSIVE GuessesOf(_)
GuessesOf(r) == IF r = <<>> THEN <<>> ELSE <<Head(r).guess>> \o GuessesOf(Tail(r))

\* top_guesses (lines 93-120).
TopGuesses(p, d, gs, as) ==
    IF d = 0 /\ p.starting_word # None
    THEN <<p.starting_word[1]>>
    ELSE Take(GuessesOf(SortRanked(RankAll(gs, as))), p.n_guesses)

\* ----------------------------------------------------------------- solve
DepthLimitOffByOne == 8

\* The depth at which solve gives up (line 85).
DepthLimit == 7

\* The answers of the slice whose feedback for guess g is k, in slice order.
RECURSIVE Grouped(_, _, _)
Grouped(g, as, k) ==
    IF as = <<>> THEN <<>>
    ELSE (IF score(g, Head(as)) = k THEN <<Head(as)>> ELSE <<>>) \o Grouped(g, Tail(as), k)

\* groups: HashMap<Word, Vec<Word>> after the loop of lines 139-143.
GroupAnswers(g, as) ==
    LET cs == ScoreAll(g, as)
    IN  [k \in {cs[i] : i \in 1..Len(cs)} |-> Grouped(g, as, k)]

\* The Tree literal of lines 132-137.
NewTree(g, as) ==
    [guess |-> g, total_guesses |-> Len(as), max_guesses |-> 0, children |-> EmptyMap]

\* The loop of lines 155-162 adding the all-green child's total as well.
RECURSIVE AttachCountGreen(_, _, _, _)
AttachCountGreen(tree, ks, children, i) ==
    IF i > Len(ks) THEN Some(tree)
    ELSE IF children[i] = None THEN None
    ELSE LET child == children[i][1]
         IN  AttachCountGreen([guess         |-> tree.guess,
                               total_guesses |-> tree.total_guesses + child.total_guesses,
                               max_guesses   |-> Max(tree.max_guesses, child.max_guesses + 1),
                               children      |-> MapInsert(tree.children, ks[i], child)],
                              ks, children, i + 1)

\* The loop of lines 155-162 keeping the last child's depth, not the largest.
RECURSIVE AttachLastMax(_, _, _, _)
AttachLastMax(tree, ks, children, i) ==
    IF i > Len(ks) THEN Some(tree)
    ELSE IF children[i] = None THEN None
    ELSE LET child == children[i][1]
         IN  AttachLastMax([guess         |-> tree.guess,
                            total_guesses |-> IF ks[i] # AllGreen
                                              THEN tree.total_guesses + child.total_guesses
                                              ELSE tree.total_guesses,
                            max_guesses   |-> child.max_guesses + 1,
                            children      |-> MapInsert(tree.children, ks[i], child)],
                           ks, children, i + 1)

\* The loop of lines 155-162 from the i-th (key, child) pair on; `child?`
\* abandons the candidate at the first None.
RECURSIVE Attach(_, _, _, _)
Attach(tree, ks, children, i) ==
    IF i > Len(ks) THEN Some(tree)
    ELSE IF children[i] = None THEN None
    ELSE LET child == children[i][1]
         IN  Attach([guess         |-> tree.guess,
                     total_guesses |-> IF ks[i] # AllGreen
                                       THEN tree.total_guesses + child.total_guesses
                                       ELSE tree.total_guesses,
                     max_guesses   |-> Max(tree.max_guesses, child.max_guesses + 1),
                     children      |-> MapInsert(tree.children, ks[i], child)],
                    ks, children, i + 1)

\* One step of min_by_key that lets a later candidate win a tie.
MinStepLast(best, cand) ==
    IF cand = None THEN best
    ELSE IF best = None THEN cand
    ELSE IF cand[1].total_guesses <= best[1].total_guesses THEN cand ELSE best

\* One step of min_by_key that keeps the candidate seen last.
MinStepNewest(best, cand) ==
    IF cand = None THEN best ELSE cand

\* One step of filter_map(..).min_by_key(|tree| tree.total_guesses) (lines
\* 126, 170): None candidates are dropped, the first minimum is kept.
MinStep(best, cand) ==
    IF cand = None THEN best
    ELSE IF best = None THEN cand
    ELSE IF cand[1].total_guesses < best[1].total_guesses THEN cand ELSE best

\* fn solve (lines 83-173) as a function of its arguments and of the hash
\* seed h that fixes the iteration order of every groups map it builds.
RECURSIVE solve(_, _, _, _, _)
RECURSIVE SolveGroups(_, _, _, _, _, _, _)
RECURSIVE SolveCands(_, _, _, _, _, _, _, _)

SolveGroups(p, h, d, gs, groups, ks, i) ==
    IF i > Len(ks) THEN <<>>
    ELSE <<solve(p, h + i, d + 1, gs, groups[ks[i]])>> \o SolveGroups(p, h, d, gs, groups, ks, i + 1)

CandTree(p, h, d, gs, as, g) ==
    LET groups == GroupAnswers(g, as)
        ks     == KeyOrder(h, DOMAIN groups)
    IN  Attach(NewTree(g, as), ks, SolveGroups(p, h, d, gs, groups, ks, 1), 1)

SolveCands(p, h, d, gs, as, top, i, best) ==
    IF i > Len(top) THEN best
    ELSE SolveCands(p, h, d, gs, as, top, i + 1, MinStep(best, CandTree(p, h, d, gs, as, top[i])))

solve(p, h, d, gs, as) ==
    IF d >= DepthLimit THEN None
    ELSE IF Len(as) = 1 THEN Some(leaf(as[1]))
    ELSE SolveCands(p, h, d, gs, as, TopGuesses(p, d, gs, as), 1, None)

\* ---------------------------------------------------------------- inputs
MaxChain == 8
MaxWide == 3
MaxBreadth == 2
MaxHash == 2
NumLetters == 2

silly == <<115, 105, 108, 108, 121>>
hotel == <<104, 111, 116, 101, 108>>
daily == <<100, 97, 105, 108, 121>>
zzzzz == <<122, 122, 122, 122, 122>>
bcdef == <<98, 99, 100, 101, 102>>

\* aaaab, aaaac, ...: any two of them score ggggb against each other.
ChainWord(k) == <<97, 97, 97, 97, 97 + k>>
Chain(n) == [k \in 1..n |-> ChainWord(k)]

TestWords == <<silly, hotel, daily>>

\* aaaaa, aaaba, aaaca, aaada, baaba, caaba
HardWords ==
    << <<97, 97, 97, 97, 97>>, <<97, 97, 97, 98, 97>>, <<97, 97, 97, 99, 97>>,
       <<97, 97, 97, 100, 97>>, <<98, 97, 97, 98, 97>>, <<99, 97, 97, 98, 97>> >>

\* Contents of answers.txt and guesses.txt the runs are started with.
ONLY_GUESSES == <<bcdef, zzzzz>>

Range(s) == {s[i] : i \in 1..Len(s)}

\* main, lines 193-200: the guess pool built from the two word lists.
MainGuesses(as, answers_only) ==
    IF answers_only THEN as ELSE SortSet(Range(as) \cup Range(ONLY_GUESSES))

HashSeeds == 0..(MaxHash - 1)

StartingWords == {None, Some(zzzzz), Some(ChainWord(1))}

Runs ==
    {[answers |-> Chain(n), n_guesses |-> 1] : n \in 1..MaxChain}
    \cup {[answers |-> a, n_guesses |-> b] :
            a \in {TestWords, HardWords} \cup {Chain(n) : n \in 1..MaxWide},
            b \in 1..MaxBreadth}

ScoreWords ==
    {w \in [1..WordLen -> 97..(96 + NumLetters)] : TRUE} \cup {silly, hotel, daily}

\* ----------------------------------------------------------------- state
\* The state is one activation of solve: its arguments, its locals and its
\* return value. The recursive call for a group either runs to completion
\* in one step (RunTask, its value given by the function solve above) or
\* becomes the activation that is followed (Recurse); every activation the
\* program creates is followed from its entry to its return in some
\* behaviour. Calls of one fan-out share no data, so the order in which they
\* complete is all that their interleaving can show.
VARIABLES
    params,       \* Params: n_guesses, answers_only, starting_word
    guesses,      \* the guess pool passed to every call of solve
    answers,      \* the answers slice of the call of solve in progress
    depth,        \* its depth argument
    pc,           \* where that call stands
    top_guesses,  \* line 93
    ci,           \* index in top_guesses of the candidate being explored
    cands,        \* what the filter_map closure returned per candidate so far
    best,         \* accumulator of min_by_key
    groups,       \* line 139
    keys,         \* iteration order of groups
    children,     \* Vec<Option<Tree>> being collected, indexed like keys
    finished,     \* indices of children whose recursive call has returned
    result,       \* return value of the call
    out,          \* lines written to out.txt
    guess,        \* score: its arguments and return value
    answer,
    colors

vars == <<params, guesses, answers, depth, pc, top_guesses, ci, cands, best,
          groups, keys, children, finished, result, out, guess, answer, colors>>

frame == <<top_guesses, ci, cands, best, groups, keys, children, finished>>
scoring == <<guess, answer, colors>>
inputs == <<params, guesses>>

EmptyFrame ==
    /\ top_guesses = <<>>
    /\ ci = 0
    /\ cands = <<>>
    /\ best = None
    /\ groups = EmptyMap
    /\ keys = <<>>
    /\ children = <<>>
    /\ finished = {}

\* main calls solve(&params, 0, &guesses, &answers) (line 202).
Init ==
    /\ \E r \in Runs, only \in BOOLEAN, sw \in StartingWords :
        /\ params = [n_guesses |-> r.n_guesses, answers_only |-> only, starting_word |-> sw]
        /\ answers = r.answers
        /\ guesses = MainGuesses(r.answers, only)
    /\ depth = 0
    /\ pc = "call"
    /\ EmptyFrame
    /\ result = None
    /\ out = <<>>
    /\ guess = <<>>
    /\ answer = <<>>
    /\ colors = <<>>

\* Lines 85-87.
DepthBound ==
    /\ pc = "call"
    /\ depth >= DepthLimit
    /\ result' = None
    /\ pc' = "done"
    /\ UNCHANGED <<inputs, answers, depth, frame, out, scoring>>

\* Lines 89-91.
Terminal ==
    /\ pc = "call"
    /\ depth < DepthLimit
    /\ Len(answers) = 1
    /\ result' = Some(leaf(answers[1]))
    /\ pc' = "done"
    /\ UNCHANGED <<inputs, answers, depth, frame, out, scoring>>

\* Lines 93-122.
SelectCandidates ==
    /\ pc = "call"
    /\ depth < DepthLimit
    /\ Len(answers) > 1
    /\ top_guesses' = TopGuesses(params, depth, guesses, answers)
    /\ ci' = 1
    /\ best' = None
    /\ cands' = <<>>
    /\ pc' = "cand"
    /\ UNCHANGED <<inputs, answers, depth, groups, keys, children, finished, result, out, scoring>>

\* Lines 132-143 for candidate top_guesses[ci]; h is the hash seed of groups.
Partition(h) ==
    /\ pc = "cand"
    /\ ci <= Len(top_guesses)
    /\ groups' = GroupAnswers(top_guesses[ci], answers)
    /\ keys' = KeyOrder(h, DOMAIN groups')
    /\ children' = [i \in 1..Len(keys') |-> None]
    /\ finished' = {}
    /\ pc' = "fanout"
    /\ UNCHANGED <<inputs, answers, depth, top_guesses, ci, cands, best, result, out, scoring>>

\* The recursive calls that may run next: any outstanding one under par_iter
\* (line 150, depth <= 1), the next in iteration order under iter (line 152).
Runnable(i) ==
    /\ i \in 1..Len(keys)
    /\ i \notin finished
    /\ depth > 1 => \A j \in 1..(i - 1) : j \in finished

\* A collector that appends results in the order the calls complete.
StoreChildByCompletion(cs, fin, i, r) == [cs EXCEPT ![Cardinality(fin) + 1] = r]

\* collect() of lines 149-153 puts the i-th call's result at index i.
StoreChild(cs, fin, i, r) == [cs EXCEPT ![i] = r]

\* Lines 145-153: the recursive call for the i-th group runs to completion.
RunTask(i, h) ==
    /\ pc = "fanout"
    /\ Runnable(i)
    /\ children' = StoreChild(children, finished, i,
                              solve(params, h, depth + 1, guesses, groups[keys[i]]))
    /\ finished' = finished \cup {i}
    /\ UNCHANGED <<inputs, answers, depth, pc, top_guesses, ci, cands, best, groups, keys,
                   result, out, scoring>>

\* Line 146 seen from the callee: the call for the i-th group is entered.
Recurse(i) ==
    /\ pc = "fanout"
    /\ Runnable(i)
    /\ depth' = depth + 1
    /\ answers' = groups[keys[i]]
    /\ pc' = "call"
    /\ top_guesses' = <<>>
    /\ ci' = 0
    /\ cands' = <<>>
    /\ best' = None
    /\ groups' = EmptyMap
    /\ keys' = <<>>
    /\ children' = <<>>
    /\ finished' = {}
    /\ UNCHANGED <<inputs, result, out, scoring>>

\* Lines 155-168, and the candidate's result folded into min_by_key.
Collect ==
    /\ pc = "fanout"
    /\ finished = 1..Len(keys)
    /\ LET tree == Attach(NewTree(top_guesses[ci], answers), keys, children, 1)
       IN  /\ cands' = Append(cands, tree)
           /\ best' = MinStep(best, tree)
    /\ ci' = ci + 1
    /\ pc' = "cand"
    /\ UNCHANGED <<inputs, answers, depth, top_guesses, groups, keys, children, finished,
                   result, out, scoring>>

\* Lines 170-172.
Return ==
    /\ pc = "cand"
    /\ ci > Len(top_guesses)
    /\ result' = best
    /\ pc' = "done"
    /\ UNCHANGED <<inputs, answers, depth, frame, out, scoring>>

\* main, lines 202-207: unwrap the root tree and write it to out.txt.
WriteOut(h) ==
    /\ pc = "done"
    /\ depth = 0
    /\ result # None
    /\ out' = write(result[1], <<>>, h)
    /\ pc' = "written"
    /\ UNCHANGED <<inputs, answers, depth, frame, result, scoring>>

Next ==
    \/ DepthBound
    \/ Terminal
    \/ SelectCandidates
    \/ \E h \in HashSeeds : Partition(h)
    \/ \E i \in 1..Len(keys), h \in HashSeeds : RunTask(i, h)
    \/ \E i \in 1..Len(keys) : Recurse(i)
    \/ Collect
    \/ Return
    \/ \E h \in HashSeeds : WriteOut(h)

Spec == Init /\ [][Next]_vars

\* ------------------------------------------------------- score on its own
ScoreInit ==
    /\ guess \in ScoreWords
    /\ answer \in ScoreWords
    /\ colors = AllBlack
    /\ pc = "score"
    /\ params = [n_guesses |-> 1, answers_only |-> TRUE, starting_word |-> None]
    /\ guesses = <<>>
    /\ answers = <<>>
    /\ depth = 0
    /\ EmptyFrame
    /\ result = None
    /\ out = <<>>

\* A call of score (lines 59-81).
Score ==
    /\ pc = "score"
    /\ colors' = score(guess, answer)
    /\ pc' = "scored"
    /\ UNCHANGED <<inputs, answers, depth, frame, result, out, guess, answer>>

ScoreNext == Score

ScoreSpec == ScoreInit /\ [][ScoreNext]_vars

\* ================================================================ claims
HardBound == 7
Returned == pc \in {"done", "written"}
Colours == {ColG, ColY, ColB}
Labelled(g, cs, c) == Cardinality({i \in 1..WordLen : g[i] = c /\ cs[i] \in {ColG, ColY}})
Occurrences(w, c) == Cardinality({j \in 1..WordLen : w[j] = c})

\* C1: score labels each of the 5 positions g, y or b; position i is g
\* exactly when guess[i] = answer[i]; for every letter the positions of the
\* guess holding it that are labelled g or y are at most its occurrences in
\* the answer; silly/hotel gives bbybb and silly/daily gives bybgg.
C1_ScoreLabels ==
    pc = "scored" =>
        /\ DOMAIN colors = 1..WordLen
        /\ \A i \in 1..WordLen : colors[i] \in Colours
        /\ \A i \in 1..WordLen : (colors[i] = ColG) <=> (guess[i] = answer[i])
        /\ \A c \in Range(guess) : Labelled(guess, colors, c) <= Occurrences(answer, c)
        /\ (guess = silly /\ answer = hotel) => colors = <<ColB, ColB, ColY, ColB, ColB>>
        /\ (guess = silly /\ answer = daily) => colors = <<ColB, ColY, ColB, ColG, ColG>>

\* A letter guessed twice against an answer holding it once: one y, one b.
C1_Witness ==
    /\ pc = "scored"
    /\ guess = silly
    /\ answer = hotel
    /\ colors[3] = ColY
    /\ colors[4] = ColB

\* Number of guesses a player following tree t makes against answer a.
RECURSIVE Play(_, _)
Play(t, a) ==
    IF score(t.guess, a) = AllGreen THEN 1
    ELSE 1 + Play(t.children[score(t.guess, a)], a)

RECURSIVE SumPlay(_, _)
SumPlay(t, as) == IF as = <<>> THEN 0 ELSE Play(t, Head(as)) + SumPlay(t, Tail(as))

StatsMatchPlay(t, as) ==
    /\ t.total_guesses = SumPlay(t, as)
    /\ \A a \in Range(as) : Play(t, a) <= t.max_guesses
    /\ \E a \in Range(as) : Play(t, a) = t.max_guesses

\* C2: total_guesses of a returned tree is the sum over the answers of its
\* pool of the guesses played following the tree, max_guesses the largest
\* such number; the same for every subtree and the pool it was built for.
C2_StatsArePlayCounts ==
    /\ (Returned /\ result # None) => StatsMatchPlay(result[1], answers)
    /\ pc = "fanout" =>
          \A i \in finished :
              children[i] # None => StatsMatchPlay(children[i][1], groups[keys[i]])

C2_Witness ==
    /\ pc = "done"
    /\ depth = 0
    /\ result # None
    /\ Len(answers) >= 6
    /\ result[1].max_guesses = 3
    /\ result[1].total_guesses = 13

RECURSIVE SumTotals(_, _)
SumTotals(m, ks) ==
    IF ks = {} THEN 0
    ELSE LET k == CHOOSE x \in ks : TRUE IN m[k].total_guesses + SumTotals(m, ks \ {k})

RECURSIVE NodeOK(_, _)
NodeOK(t, pool) ==
    IF DOMAIN t.children = {}
    THEN t.total_guesses = 1 /\ t.max_guesses = 1
    ELSE /\ \A k \in DOMAIN t.children : t.max_guesses >= 1 + t.children[k].max_guesses
         /\ \E k \in DOMAIN t.children : t.max_guesses = 1 + t.children[k].max_guesses
         /\ t.total_guesses = Len(pool) + SumTotals(t.children, (DOMAIN t.children) \ {AllGreen})
         /\ \A k \in DOMAIN t.children : NodeOK(t.children[k], Grouped(t.guess, pool, k))

\* C3: every node of a returned tree satisfies the statistic equations: a
\* leaf has total = max = 1; an internal node built for pool P has max =
\* 1 + max of its children's max and total = |P| + the sum of its children's
\* totals, the all-green child excepted.
C3_NodeEquations ==
    /\ (Returned /\ result # None) => NodeOK(result[1], answers)
    /\ pc = "fanout" =>
          \A i \in finished : children[i] # None => NodeOK(children[i][1], groups[keys[i]])

C3_Witness ==
    /\ pc = "done"
    /\ result # None
    /\ \E k \in DOMAIN result[1].children :
          /\ k # AllGreen
          /\ DOMAIN result[1].children[k].children # {}
    /\ AllGreen \in DOMAIN result[1].children

IsLeafOf(r, w) ==
    /\ r # None
    /\ r[1].guess = w
    /\ DOMAIN r[1].children = {}
    /\ r[1].total_guesses = 1
    /\ r[1].max_guesses = 1

\* C4 as stated: every call of solve whose answer pool has one element
\* returns the leaf of that element.
C4_EveryDepth ==
    (pc = "done" /\ Len(answers) = 1) => IsLeafOf(result, answers[1])

\* C4 amended: every call of solve at a depth below 7 whose answer pool has
\* one element returns the leaf of that element (total = max = 1, no
\* children), whatever the guess pool, breadth and forced first guess.
C4_BelowDepthLimit ==
    /\ (pc = "done" /\ Len(answers) = 1 /\ depth < HardBound) => IsLeafOf(result, answers[1])
    /\ (pc = "fanout" /\ depth + 1 < HardBound) =>
          \A i \in finished : Len(groups[keys[i]]) = 1 => IsLeafOf(children[i], groups[keys[i]][1])

C4_Witness ==
    /\ pc = "done"
    /\ depth = 0
    /\ Len(answers) = 1
    /\ params.starting_word = Some(zzzzz)
    /\ params.n_guesses > 1
    /\ ~params.answers_only
    /\ IsLeafOf(result, answers[1])

RECURSIVE Height(_)
RECURSIVE MaxHeight(_, _)
MaxHeight(m, ks) ==
    IF ks = {} THEN 0
    ELSE LET k == CHOOSE x \in ks : TRUE IN Max(Height(m[k]), MaxHeight(m, ks \ {k}))

Height(t) == 1 + MaxHeight(t.children, DOMAIN t.children)

\* C5: solve returns no node at depth 7 or more, so a tree returned at depth
\* 0 has at most 7 nodes on every root-to-leaf path and max_guesses <= 7.
C5_DepthBound ==
    /\ (Returned /\ result # None) =>
          /\ depth < HardBound
          /\ depth + Height(result[1]) <= HardBound
          /\ depth + result[1].max_guesses <= HardBound
    /\ pc = "fanout" =>
          \A i \in finished :
              children[i] # None => depth + 1 + Height(children[i][1]) <= HardBound

C5_Witness ==
    /\ pc = "done"
    /\ depth = 0
    /\ result # None
    /\ Height(result[1]) = HardBound
    /\ result[1].max_guesses = HardBound

\* The tree solve returns when every groups map iterates in sorted key order.
Reference(d, as) == solve(params, 0, d, guesses, as)

RECURSIVE ChildrenFromGroups(_, _, _)
ChildrenFromGroups(t, d, as) ==
    LET gr == GroupAnswers(t.guess, as)
    IN  /\ DOMAIN t.children = DOMAIN gr
        /\ \A k \in DOMAIN gr :
              /\ Some(t.children[k]) = Reference(d + 1, gr[k])
              /\ DOMAIN t.children[k].children # {} => ChildrenFromGroups(t.children[k], d + 1, gr[k])

\* C6: the tree solve returns does not depend on the order in which the
\* recursive calls of a fan-out complete nor on the iteration order of the
\* groups maps: it is the tree of the sorted-order sequential run, and every
\* child sits under the feedback pattern of the group it was computed from.
C6_ScheduleIndependent ==
    /\ Returned =>
          /\ result = Reference(depth, answers)
          /\ (result # None /\ DOMAIN result[1].children # {}) =>
                ChildrenFromGroups(result[1], depth, answers)
    /\ pc = "fanout" =>
          \A i \in finished : children[i] = Reference(depth + 1, groups[keys[i]])

\* A fan-out at depth <= 1 whose calls completed out of iteration order, over
\* a groups map that did not iterate in sorted order.
C6_Witness ==
    /\ pc = "fanout"
    /\ depth <= 1
    /\ Len(keys) >= 3
    /\ keys # SortSet(DOMAIN groups)
    /\ finished = {2, 3}
    /\ children[2] # None
    /\ children[3] # None
    /\ children[2] # children[3]

\* C7: Tree::write emits the same lines in the same order whatever the
\* iteration order of the child maps.
C7_WriteOrderFixed ==
    pc = "written" => out = write(result[1], <<>>, 0)

\* C8: without a forced first guess, whenever breadth 1 finds a tree the
\* configured breadth finds one too, with total_guesses no larger.
C8_BreadthNeverWorse ==
    (pc = "done" /\ params.starting_word = None) =>
        LET narrow == solve([params EXCEPT !.n_guesses = 1], 0, depth, guesses, answers)
        IN  narrow # None =>
                /\ result # None
                /\ result[1].total_guesses <= narrow[1].total_guesses

\* Breadth 2 or more finds a strictly better tree than breadth 1.
C8_Witness ==
    /\ pc = "done"
    /\ depth = 0
    /\ params.starting_word = None
    /\ params.n_guesses > 1
    /\ result # None
    /\ LET narrow == solve([params EXCEPT !.n_guesses = 1], 0, depth, guesses, answers)
       IN  narrow # None /\ result[1].total_guesses < narrow[1].total_guesses

LastWord(line) == SubSeq(line, Len(line) - WordLen, Len(line) - 1)

\* line is the guesses of a root-to-leaf path of t, comma separated, then \n.
RECURSIVE IsPathLine(_, _)
IsPathLine(t, line) ==
    IF DOMAIN t.children = {}
    THEN line = t.guess \o <<Newline>>
    ELSE /\ Len(line) > WordLen + 1
         /\ SubSeq(line, 1, WordLen + 1) = t.guess \o <<Comma>>
         /\ \E k \in DOMAIN t.children :
               IsPathLine(t.children[k], SubSeq(line, WordLen + 2, Len(line)))

\* C9: the enumeration written for the tree of answer pool A has one line
\* per answer: each line is a root-to-leaf path, ends in an answer of A, and
\* every answer of A ends exactly one line.
C9_OneLinePerAnswer ==
    pc = "written" =>
        /\ Len(out) = Len(answers)
        /\ \A n \in 1..Len(out) :
              /\ IsPathLine(result[1], out[n])
              /\ LastWord(out[n]) \in Range(answers)
        /\ \A a \in Range(answers) :
              Cardinality({n \in 1..Len(out) : LastWord(out[n]) = a}) = 1

C9_Witness ==
    /\ pc = "written"
    /\ Len(answers) >= 3
    /\ Len(out) >= 3
    /\ \E n \in 1..Len(out) : Len(out[n]) = 4 * (WordLen + 1)

Valid == {i \in 1..Len(cands) : cands[i] # None}
Cheapest == {i \in Valid : \A j \in Valid : cands[i][1].total_guesses <= cands[j][1].total_guesses}
FirstOf(S) == CHOOSE i \in S : \A j \in S : i <= j

\* C10: at depth < 7 with two answers or more, a candidate yields a tree
\* exactly when the recursive solve succeeded for each of its groups; solve
\* returns the valid candidate tree of least total_guesses, the first such
\* in candidate order, and None exactly when no candidate was valid.
C10_FirstCheapestCandidate ==
    /\ (pc = "cand" /\ cands # <<>>) =>
          /\ cands[Len(cands)] # None <=> \A i \in 1..Len(keys) : children[i] # None
          /\ cands[Len(cands)] # None => cands[Len(cands)][1].guess = top_guesses[Len(cands)]
    /\ (pc = "done" /\ depth < HardBound /\ Len(answers) >= 2) =>
          /\ Len(cands) = Len(top_guesses)
          /\ result = None <=> Valid = {}
          /\ Valid # {} => result = cands[FirstOf(Cheapest)]

\* Two different valid candidate trees tie for the least total and the
\* earlier one is returned.
C10_Witness ==
    /\ pc = "done"
    /\ Cardinality(Cheapest) >= 2
    /\ result = cands[FirstOf(Cheapest)]
    /\ \E i \in Cheapest : i # FirstOf(Cheapest) /\ cands[i] # result

====
